---------------------------- MODULE Spec2Model ----------------------------
(***************************************************************************)
(* Model of the HD44780LCD driver (HD44780LCD.h / HD44780LCD.cpp).         *)
(*                                                                         *)
(* The driver object is the record [cursorLoc, displayState,               *)
(* cursorMovement, backlightMask, bus]: its four data members plus the log *)
(* of what the method under execution has done on the I2C bus.  Every      *)
(* method of the class is an operator from object (and arguments) to       *)
(* object, translated statement by statement, so that a method that calls  *)
(* another one is the composition of the two operators.  One action per    *)
(* public method applies the operator to the current object.               *)
(***************************************************************************)
EXTENDS Integers, Sequences, FiniteSets, TLC

(***************************************************************************)
(* Instruction codes and masks, HD44780LCD.cpp lines 10-87 (hex in the     *)
(* source, decimal here).                                                  *)
(***************************************************************************)
LCD_CLEAR_DISPLAY == 1
LCD_SET_CURSOR_HOME == 2
LCD_SET_ENTRY_MODE == 4
LCD_CURSOR_MOVE == 0
LCD_DISPLAY_MOVE == 1
LCD_CURSOR_POS_DEC == 0
LCD_CURSOR_POS_INC == 2
LCD_CONTROL_DISPLAY == 8
LCD_BLINK_DISABLE == 0
LCD_BLINK_ENABLE == 1
LCD_CURSOR_DISABLE == 0
LCD_CURSOR_ENABLE == 2
LCD_DISPLAY_ENABLE == 4
LCD_SHIFT_CURSOR == 16
LCD_CURSOR_MOVE_LT == 0
LCD_CURSOR_MOVE_RT == 4
LCD_DISPLAY_MOVE_LT == 8
LCD_DISPLAY_MOVE_RT == 12
LCD_SET_FUNCTION == 32
LCD_DOT_COUNT_8 == 0
LCD_LINE_COUNT_2 == 8
LCD_BUS_SIZE_4 == 0
LCD_BUS_SIZE_8 == 16
LCD_SET_CGRAMADDR == 64
LCD_SET_DDRAMADDR == 128
LCD_ORIG_ADDR_FIRST == 0
LCD_ORIG_ADDR_SECOND == 64
LCD_LINE_SIZE == 40
RS_ID == 0
EN_ID == 2
BACKLIGHT_ID == 3

(***************************************************************************)
(* Bounds of the model: the arguments the environment passes.              *)
(***************************************************************************)
\* set_cursor_pos is called with rows 0..MaxRow
MaxRow == 2
\* send_buffer is called with buffers of at most MaxLen bytes
MaxLen == 2
\* create_custom_char is called with locations 0..MaxSlot
MaxSlot == 7
\* consecutive increment steps followed on the orbit from the origin
MaxRun == 160
\* mode negotiations counted by the probe on the bus
MaxInit == 2

\* the columns set_cursor_pos is called with: the first two of a row, the last
\* one a 16-column panel shows, the last one of a row (39), the row width
\* (LCD_LINE_SIZE) and the first value above it
Cols == {0, 1, 15, 39, 40, 41}
\* the bytes send_data is called with: 'H' and the two extreme values
DataBytes == {0, 72, 255}
\* the bytes of the buffers send_buffer is called with: 'H' and 'I'
BufBytes == {72, 73}
Buffers == UNION {[1..n -> BufBytes] : n \in 0..MaxLen}
\* the glyph create_custom_char is called with: eight different rows
Glyphs == {<<1, 2, 4, 8, 16, 31, 21, 14>>}
\* the values _putc is called with: '\n', '\r', 'H', a value above 255 whose
\* low byte is '\n', and EOF (-1)
PutcChars == {10, 13, 72, 266, -1}

(***************************************************************************)
(* Machine arithmetic: the C++ operators |, &, ^, <<, >> on non-negative   *)
(* values, and the conversion to an unsigned type of w bits.               *)
(***************************************************************************)
RECURSIVE BitOr(_, _)
BitOr(x, y) ==
    IF x = 0 THEN y
    ELSE IF y = 0 THEN x
    ELSE (IF x % 2 = 1 \/ y % 2 = 1 THEN 1 ELSE 0) + 2 * BitOr(x \div 2, y \div 2)

RECURSIVE BitAnd(_, _)
BitAnd(x, y) ==
    IF x = 0 \/ y = 0 THEN 0
    ELSE (IF x % 2 = 1 /\ y % 2 = 1 THEN 1 ELSE 0) + 2 * BitAnd(x \div 2, y \div 2)

RECURSIVE BitXor(_, _)
BitXor(x, y) ==
    IF x = 0 THEN y
    ELSE IF y = 0 THEN x
    ELSE (IF x % 2 # y % 2 THEN 1 ELSE 0) + 2 * BitXor(x \div 2, y \div 2)

Shl(x, n) == x * 2^n
Shr(x, n) == x \div 2^n
Trunc(x, w) == x % 2^w
\* x & ~m stored into an unsigned field of w bits: the complement is taken on
\* the promoted int, and the store keeps its low w bits.
AndNot(x, m, w) == BitAnd(x, 2^w - 1 - Trunc(m, w))

LO_NIBBLE(x) == BitAnd(Shr(x, 0), 15)
HI_NIBBLE(x) == BitAnd(Shr(x, 4), 15)

(***************************************************************************)
(* The bus log: con.write(addr, ptr, 1) of one byte b is <<"w", b>>,       *)
(* ThisThread::sleep_for(n ms) is <<"d", n>>.                              *)
(***************************************************************************)
I2CWrite(b) == <<"w", b>>
SleepFor(ms) == <<"d", ms>>

(***************************************************************************)
(* HD44780LCD::I2CInterface                                                *)
(***************************************************************************)
\* faulty variant: the backlight bit is left out of the packed byte
Faulty_StrobeNibble_NoBacklight(s, nibble, isData) ==
    LET result == Trunc(BitOr(Shl(nibble, 4), Shl(isData, RS_ID)), 8)
        buf    == << result, BitOr(result, Shl(1, EN_ID)), result >>
    IN  [s EXCEPT !.bus = @ \o << I2CWrite(buf[1]), SleepFor(1),
                                  I2CWrite(buf[2]), SleepFor(1),
                                  I2CWrite(buf[3]), SleepFor(1) >>]

\* faulty variant: the enable strobe is still set in the third byte
Faulty_StrobeNibble_StrobeHeld(s, nibble, isData) ==
    LET result == Trunc(BitOr(BitOr(Shl(nibble, 4), Shl(isData, RS_ID)),
                              s.backlightMask), 8)
        buf    == << result, BitOr(result, Shl(1, EN_ID)), BitOr(result, Shl(1, EN_ID)) >>
    IN  [s EXCEPT !.bus = @ \o << I2CWrite(buf[1]), SleepFor(1),
                                  I2CWrite(buf[2]), SleepFor(1),
                                  I2CWrite(buf[3]), SleepFor(1) >>]

\* the body shared by send_byte's loop and send_nibble: pack.result and the
\* three-byte pack.buf, each byte written and followed by sleep_for(1ms)
StrobeNibble(s, nibble, isData) ==
    LET result == Trunc(BitOr(BitOr(Shl(nibble, 4), Shl(isData, RS_ID)),
                              s.backlightMask), 8)
        buf    == << result, BitOr(result, Shl(1, EN_ID)), result >>
    IN  [s EXCEPT !.bus = @ \o << I2CWrite(buf[1]), SleepFor(1),
                                  I2CWrite(buf[2]), SleepFor(1),
                                  I2CWrite(buf[3]), SleepFor(1) >>]

\* faulty variant: the low nibble is sent first (byte >> _ instead of
\* byte >> (4 ^ _))
Faulty_send_byte_LowFirst(s, byte, isData) ==
    LET first  == BitAnd(Shr(byte, 0), 15)
        second == BitAnd(Shr(byte, 4), 15)
    IN  StrobeNibble(StrobeNibble(s, first, isData), second, isData)

\* for (_ = 0; _ <= 4; _ += 4) nibble = (byte >> (4 ^ _)) & 0xf
send_byte(s, byte, isData) ==
    LET first  == BitAnd(Shr(byte, BitXor(4, 0)), 15)
        second == BitAnd(Shr(byte, BitXor(4, 4)), 15)
    IN  StrobeNibble(StrobeNibble(s, first, isData), second, isData)

send_nibble(s, nibble, isData) == StrobeNibble(s, nibble, isData)

I2C_enable_backlight(s) ==
    LET m == Shl(1, BACKLIGHT_ID)
    IN  [s EXCEPT !.backlightMask = m, !.bus = @ \o << I2CWrite(m) >>]

I2C_disable_backlight(s) ==
    LET m == AndNot(s.backlightMask, Shl(1, BACKLIGHT_ID), 8)
    IN  [s EXCEPT !.backlightMask = m, !.bus = @ \o << I2CWrite(m) >>]

\* faulty variant: backlightMask |= instead of backlightMask ^=
Faulty_I2C_toggle_backlight_Or(s) ==
    LET m == BitOr(s.backlightMask, Shl(1, BACKLIGHT_ID))
    IN  [s EXCEPT !.backlightMask = m, !.bus = @ \o << I2CWrite(m) >>]

I2C_toggle_backlight(s) ==
    LET m == BitXor(s.backlightMask, Shl(1, BACKLIGHT_ID))
    IN  [s EXCEPT !.backlightMask = m, !.bus = @ \o << I2CWrite(m) >>]

I2C_is_backlight_on(s) == s.backlightMask # 0

Sleep(s, ms) == [s EXCEPT !.bus = Append(@, SleepFor(ms))]

(***************************************************************************)
(* HD44780LCD: private methods                                             *)
(***************************************************************************)
\* faulty variant: the address is cut to its low six bits
Faulty_update_display_cursor_pos_SixBits(s) ==
    send_byte(s, Trunc(BitOr(LCD_SET_DDRAMADDR, BitAnd(s.cursorLoc, 63)), 8), 0)

\* faulty variant: the address is sent without the instruction code
Faulty_update_display_cursor_pos_NoCode(s) == send_byte(s, Trunc(s.cursorLoc, 8), 0)

\* the uint32 operand is converted to the uint8 parameter of send_byte
update_display_cursor_pos(s) ==
    send_byte(s, Trunc(BitOr(LCD_SET_DDRAMADDR, s.cursorLoc), 8), 0)

\* faulty variant: the end of row 1 is tested with > instead of >=
Faulty_inc_cursor_loc_LateWrap(s) ==
    LET loc == s.cursorLoc + 1
    IN  IF loc > LCD_ORIG_ADDR_SECOND + LCD_LINE_SIZE
        THEN [s EXCEPT !.cursorLoc = LCD_ORIG_ADDR_FIRST]
        ELSE IF loc < LCD_ORIG_ADDR_SECOND /\ loc >= LCD_ORIG_ADDR_FIRST + LCD_LINE_SIZE
        THEN [s EXCEPT !.cursorLoc = LCD_ORIG_ADDR_SECOND]
        ELSE [s EXCEPT !.cursorLoc = loc]

\* faulty variant: the jump over the gap between the rows is missing
Faulty_inc_cursor_loc_NoJump(s) ==
    LET loc == s.cursorLoc + 1
    IN  IF loc >= LCD_ORIG_ADDR_SECOND + LCD_LINE_SIZE
        THEN [s EXCEPT !.cursorLoc = LCD_ORIG_ADDR_FIRST]
        ELSE [s EXCEPT !.cursorLoc = loc]

inc_cursor_loc(s) ==
    LET loc == s.cursorLoc + 1
    IN  IF loc >= LCD_ORIG_ADDR_SECOND + LCD_LINE_SIZE
        THEN [s EXCEPT !.cursorLoc = LCD_ORIG_ADDR_FIRST]
        ELSE IF loc < LCD_ORIG_ADDR_SECOND /\ loc >= LCD_ORIG_ADDR_FIRST + LCD_LINE_SIZE
        THEN [s EXCEPT !.cursorLoc = LCD_ORIG_ADDR_SECOND]
        ELSE [s EXCEPT !.cursorLoc = loc]

\* inc_cursor_loc in its two stores: ++cursorLoc, then the range checks
inc_cursor_loc_store(s) == [s EXCEPT !.cursorLoc = @ + 1]

inc_cursor_loc_check(s) ==
    IF s.cursorLoc >= LCD_ORIG_ADDR_SECOND + LCD_LINE_SIZE
    THEN [s EXCEPT !.cursorLoc = LCD_ORIG_ADDR_FIRST]
    ELSE IF s.cursorLoc < LCD_ORIG_ADDR_SECOND
            /\ s.cursorLoc >= LCD_ORIG_ADDR_FIRST + LCD_LINE_SIZE
    THEN [s EXCEPT !.cursorLoc = LCD_ORIG_ADDR_SECOND]
    ELSE s

\* faulty variant: from the base of row 1 the cursor goes one past the last
\* address of row 0
Faulty_dec_cursor_loc_OffByOne(s) ==
    IF s.cursorLoc = LCD_ORIG_ADDR_FIRST
    THEN [s EXCEPT !.cursorLoc = LCD_ORIG_ADDR_SECOND + LCD_LINE_SIZE - 1]
    ELSE IF s.cursorLoc = LCD_ORIG_ADDR_SECOND
    THEN [s EXCEPT !.cursorLoc = LCD_ORIG_ADDR_FIRST + LCD_LINE_SIZE]
    ELSE [s EXCEPT !.cursorLoc = @ - 1]

dec_cursor_loc(s) ==
    IF s.cursorLoc = LCD_ORIG_ADDR_FIRST
    THEN [s EXCEPT !.cursorLoc = LCD_ORIG_ADDR_SECOND + LCD_LINE_SIZE - 1]
    ELSE IF s.cursorLoc = LCD_ORIG_ADDR_SECOND
    THEN [s EXCEPT !.cursorLoc = LCD_ORIG_ADDR_FIRST + LCD_LINE_SIZE - 1]
    ELSE [s EXCEPT !.cursorLoc = @ - 1]

(***************************************************************************)
(* HD44780LCD: public methods                                              *)
(***************************************************************************)
\* faulty variant: the 8-bit mode nibble is sent twice instead of three times
RECURSIVE Faulty_ProbeLoop_Twice(_, _)
Faulty_ProbeLoop_Twice(s, i) ==
    IF i < 2
    THEN Faulty_ProbeLoop_Twice(
             Sleep(send_nibble(s, HI_NIBBLE(BitOr(LCD_SET_FUNCTION, LCD_BUS_SIZE_8)), 0), 5),
             i + 1)
    ELSE s

RECURSIVE ProbeLoop(_, _)
ProbeLoop(s, i) ==
    IF i < 3
    THEN ProbeLoop(Sleep(send_nibble(s, HI_NIBBLE(BitOr(LCD_SET_FUNCTION, LCD_BUS_SIZE_8)), 0), 5),
                   i + 1)
    ELSE s

\* faulty variant: the two masks are sent as they are, not reset to the defaults
Faulty_initialize_KeepsMasks(s) ==
    LET s0 == Sleep(s, 50)
        s2 == ProbeLoop(s0, 0)
        s3 == Sleep(send_nibble(s2, HI_NIBBLE(BitOr(LCD_SET_FUNCTION, LCD_BUS_SIZE_4)), 0), 2)
        s4 == Sleep(send_byte(s3, BitOr(BitOr(BitOr(LCD_SET_FUNCTION, LCD_BUS_SIZE_4),
                                              LCD_DOT_COUNT_8), LCD_LINE_COUNT_2), 0), 2)
        s5 == Sleep(send_byte(s4, LCD_CLEAR_DISPLAY, 0), 2)
        s6 == Sleep(send_byte(s5, LCD_SET_CURSOR_HOME, 0), 2)
        s7 == Sleep(send_byte(s6, Trunc(BitOr(LCD_CONTROL_DISPLAY, s6.displayState), 8), 0), 2)
        s8 == Sleep(send_byte(s7, Trunc(BitOr(LCD_SET_ENTRY_MODE, s7.cursorMovement), 8), 0), 2)
    IN  s8

initialize(s) ==
    LET s0 == Sleep(s, 50)
        s1 == [s0 EXCEPT
                 !.displayState = BitOr(BitOr(LCD_DISPLAY_ENABLE, LCD_CURSOR_DISABLE),
                                        LCD_BLINK_DISABLE),
                 !.cursorMovement = BitOr(LCD_CURSOR_MOVE, LCD_CURSOR_POS_INC)]
        s2 == ProbeLoop(s1, 0)
        s3 == Sleep(send_nibble(s2, HI_NIBBLE(BitOr(LCD_SET_FUNCTION, LCD_BUS_SIZE_4)), 0), 2)
        s4 == Sleep(send_byte(s3, BitOr(BitOr(BitOr(LCD_SET_FUNCTION, LCD_BUS_SIZE_4),
                                              LCD_DOT_COUNT_8), LCD_LINE_COUNT_2), 0), 2)
        s5 == Sleep(send_byte(s4, LCD_CLEAR_DISPLAY, 0), 2)
        s6 == Sleep(send_byte(s5, LCD_SET_CURSOR_HOME, 0), 2)
        s7 == Sleep(send_byte(s6, Trunc(BitOr(LCD_CONTROL_DISPLAY, s6.displayState), 8), 0), 2)
        s8 == Sleep(send_byte(s7, Trunc(BitOr(LCD_SET_ENTRY_MODE, s7.cursorMovement), 8), 0), 2)
    IN  s8

\* faulty variant: the direction bit is read the other way round
Faulty_send_data_Backwards(s, byte) ==
    LET s1 == send_byte(s, byte, 1)
    IN  IF BitAnd(s1.cursorMovement, LCD_CURSOR_POS_INC) # 0
        THEN dec_cursor_loc(s1)
        ELSE inc_cursor_loc(s1)

send_data(s, byte) ==
    LET s1 == send_byte(s, byte, 1)
    IN  IF BitAnd(s1.cursorMovement, LCD_CURSOR_POS_INC) # 0
        THEN inc_cursor_loc(s1)
        ELSE dec_cursor_loc(s1)

\* faulty variant: the loop stops one byte early
RECURSIVE Faulty_send_buffer_SkipsLast(_, _)
Faulty_send_buffer_SkipsLast(s, buf) ==
    IF Len(buf) <= 1
    THEN s
    ELSE Faulty_send_buffer_SkipsLast(send_data(s, Head(buf)), Tail(buf))

RECURSIVE send_buffer(_, _)
send_buffer(s, buf) ==
    IF buf = << >> THEN s ELSE send_buffer(send_data(s, Head(buf)), Tail(buf))

get_cursor_row(s) == IF s.cursorLoc >= LCD_ORIG_ADDR_SECOND THEN 1 ELSE 0

\* faulty variant: the origin of the second row is not subtracted
Faulty_get_cursor_col_NoRowBase(s) == s.cursorLoc - LCD_ORIG_ADDR_FIRST

get_cursor_col(s) ==
    s.cursorLoc - (IF s.cursorLoc >= LCD_ORIG_ADDR_SECOND
                   THEN LCD_ORIG_ADDR_SECOND
                   ELSE LCD_ORIG_ADDR_FIRST)

\* faulty variant: the column LCD_LINE_SIZE is rejected too
Faulty_set_cursor_pos_WidthRejected(s, r, c) ==
    IF r > 1 \/ c >= LCD_LINE_SIZE
    THEN s
    ELSE update_display_cursor_pos(
             [s EXCEPT !.cursorLoc = (IF r # 0 THEN LCD_ORIG_ADDR_SECOND
                                               ELSE LCD_ORIG_ADDR_FIRST) + c])

\* faulty variant: the row is not checked
Faulty_set_cursor_pos_AnyRow(s, r, c) ==
    IF c > LCD_LINE_SIZE
    THEN s
    ELSE update_display_cursor_pos(
             [s EXCEPT !.cursorLoc = (IF r # 0 THEN LCD_ORIG_ADDR_SECOND
                                               ELSE LCD_ORIG_ADDR_FIRST) + c])

set_cursor_pos(s, r, c) ==
    IF r > 1 \/ c > LCD_LINE_SIZE
    THEN s
    ELSE update_display_cursor_pos(
             [s EXCEPT !.cursorLoc = (IF r # 0 THEN LCD_ORIG_ADDR_SECOND
                                               ELSE LCD_ORIG_ADDR_FIRST) + c])

set_cursor_home(s) ==
    send_byte([s EXCEPT !.cursorLoc = LCD_ORIG_ADDR_FIRST], LCD_SET_CURSOR_HOME, 0)

\* faulty variant: the cursor is shifted right on the display
Faulty_move_cursor_left_ShiftsRight(s) ==
    dec_cursor_loc(send_byte(s, BitOr(LCD_SHIFT_CURSOR, LCD_CURSOR_MOVE_RT), 0))

move_cursor_left(s) ==
    dec_cursor_loc(send_byte(s, BitOr(LCD_SHIFT_CURSOR, LCD_CURSOR_MOVE_LT), 0))

move_cursor_right(s) ==
    inc_cursor_loc(send_byte(s, BitOr(LCD_SHIFT_CURSOR, LCD_CURSOR_MOVE_RT), 0))

RECURSIVE GlyphLoop(_, _)
GlyphLoop(s, glyph) ==
    IF glyph = << >> THEN s ELSE GlyphLoop(send_byte(s, Head(glyph), 1), Tail(glyph))

\* faulty variant: the display address is not selected again after the glyph
Faulty_create_custom_char_NoRestore(s, loc, glyph) ==
    GlyphLoop(send_byte(s, Trunc(BitOr(LCD_SET_CGRAMADDR, Shl(loc, 3)), 8), 0), glyph)

\* the uint32 operand LCD_SET_CGRAMADDR | (loc << 3) is converted to uint8
create_custom_char(s, loc, glyph) ==
    LET s1 == send_byte(s, Trunc(BitOr(LCD_SET_CGRAMADDR, Shl(loc, 3)), 8), 0)
        s2 == GlyphLoop(s1, glyph)
        r  == get_cursor_row(s2)
        c  == get_cursor_col(s2)
    IN  set_cursor_pos(s2, r, c)

enable_backlight(s) == I2C_enable_backlight(s)
disable_backlight(s) == I2C_disable_backlight(s)
toggle_backlight(s) == I2C_toggle_backlight(s)
is_backlight_on(s) == I2C_is_backlight_on(s)

\* faulty variant: cursorMovement is assigned and nothing is sent
Faulty_SetEntryMode_NoPush(s, mask) == [s EXCEPT !.cursorMovement = mask]

\* cursorMovement is assigned, then LCD_SET_ENTRY_MODE | cursorMovement is sent
SetEntryMode(s, mask) ==
    LET s1 == [s EXCEPT !.cursorMovement = mask]
    IN  send_byte(s1, Trunc(BitOr(LCD_SET_ENTRY_MODE, s1.cursorMovement), 8), 0)

set_cursor_auto_dec(s) == SetEntryMode(s, BitOr(LCD_CURSOR_POS_DEC, LCD_CURSOR_MOVE))
\* faulty variant: the instruction code is kept in cursorMovement
Faulty_set_cursor_auto_inc_KeepsCode(s) ==
    SetEntryMode(s, BitOr(LCD_SET_ENTRY_MODE, BitOr(LCD_CURSOR_POS_INC, LCD_CURSOR_MOVE)))

set_cursor_auto_inc(s) == SetEntryMode(s, BitOr(LCD_CURSOR_POS_INC, LCD_CURSOR_MOVE))
set_display_auto_dec(s) == SetEntryMode(s, BitOr(LCD_CURSOR_POS_INC, LCD_DISPLAY_MOVE))
set_display_auto_inc(s) == SetEntryMode(s, BitOr(LCD_CURSOR_POS_DEC, LCD_DISPLAY_MOVE))

\* faulty variant: the display-move names follow the direction bit
Faulty_get_entry_mode_ByDirection(s) ==
    CASE s.cursorMovement = BitOr(LCD_CURSOR_MOVE, LCD_CURSOR_POS_DEC) -> "CURSOR_DEC"
      [] s.cursorMovement = BitOr(LCD_CURSOR_MOVE, LCD_CURSOR_POS_INC) -> "CURSOR_INC"
      [] s.cursorMovement = BitOr(LCD_DISPLAY_MOVE, LCD_CURSOR_POS_INC) -> "DISPLAY_INC"
      [] s.cursorMovement = BitOr(LCD_DISPLAY_MOVE, LCD_CURSOR_POS_DEC) -> "DISPLAY_DEC"
      [] OTHER -> "CURSOR_INC"

get_entry_mode(s) ==
    CASE s.cursorMovement = BitOr(LCD_CURSOR_MOVE, LCD_CURSOR_POS_DEC) -> "CURSOR_DEC"
      [] s.cursorMovement = BitOr(LCD_CURSOR_MOVE, LCD_CURSOR_POS_INC) -> "CURSOR_INC"
      [] s.cursorMovement = BitOr(LCD_DISPLAY_MOVE, LCD_CURSOR_POS_INC) -> "DISPLAY_DEC"
      [] s.cursorMovement = BitOr(LCD_DISPLAY_MOVE, LCD_CURSOR_POS_DEC) -> "DISPLAY_INC"
      [] OTHER -> "CURSOR_INC"

\* faulty variant: the tracked address is reset with the display
Faulty_clear_display_Homes(s) ==
    send_byte([s EXCEPT !.cursorLoc = LCD_ORIG_ADDR_FIRST], LCD_CLEAR_DISPLAY, 0)

clear_display(s) == send_byte(s, LCD_CLEAR_DISPLAY, 0)

\* faulty variant: LCD_CONTROL_DISPLAY | displayState is sent before
\* displayState is assigned
Faulty_SetDisplayState_StaleMask(s, mask) ==
    LET s1 == send_byte(s, Trunc(BitOr(LCD_CONTROL_DISPLAY, s.displayState), 8), 0)
    IN  [s1 EXCEPT !.displayState = mask]

\* displayState is assigned, then LCD_CONTROL_DISPLAY | displayState is sent
SetDisplayState(s, mask) ==
    LET s1 == [s EXCEPT !.displayState = mask]
    IN  send_byte(s1, Trunc(BitOr(LCD_CONTROL_DISPLAY, s1.displayState), 8), 0)

enable_display(s) == SetDisplayState(s, BitOr(s.displayState, LCD_DISPLAY_ENABLE))
disable_display(s) == SetDisplayState(s, AndNot(s.displayState, LCD_DISPLAY_ENABLE, 16))
toggle_display(s) == SetDisplayState(s, BitXor(s.displayState, LCD_DISPLAY_ENABLE))
is_display_enabled(s) == s.displayState # 0

enable_cursor_display(s) == SetDisplayState(s, BitOr(s.displayState, LCD_CURSOR_ENABLE))
\* faulty variant: the blink bit is cleared with the cursor bit
Faulty_disable_cursor_display_ClearsBlink(s) ==
    SetDisplayState(s, AndNot(s.displayState, BitOr(LCD_CURSOR_ENABLE, LCD_BLINK_ENABLE), 16))

disable_cursor_display(s) == SetDisplayState(s, AndNot(s.displayState, LCD_CURSOR_ENABLE, 16))
toggle_cursor_display(s) == SetDisplayState(s, BitXor(s.displayState, LCD_CURSOR_ENABLE))
is_cursor_displayed(s) == BitAnd(s.displayState, LCD_CURSOR_ENABLE) # 0

enable_blinking_cursor(s) == SetDisplayState(s, BitOr(s.displayState, LCD_BLINK_ENABLE))
disable_blinking_cursor(s) == SetDisplayState(s, AndNot(s.displayState, LCD_BLINK_ENABLE, 16))
toggle_blinking_cursor(s) == SetDisplayState(s, BitXor(s.displayState, LCD_BLINK_ENABLE))
is_blinking_cursor_displayed(s) == BitAnd(s.displayState, LCD_BLINK_ENABLE) # 0

scroll_display_left(s) == send_byte(s, BitOr(LCD_SHIFT_CURSOR, LCD_DISPLAY_MOVE_LT), 0)
scroll_display_right(s) == send_byte(s, BitOr(LCD_SHIFT_CURSOR, LCD_DISPLAY_MOVE_RT), 0)

get_stream(s) == initialize(s)

\* faulty variant: '\n' goes to the next row instead of the other row
Faulty_putc_NextRow(s, c) ==
    LET row == get_cursor_row(s)
        col == get_cursor_col(s)
    IN  CASE c = 10 -> set_cursor_pos(s, row + 1, col)
          [] c = 13 -> set_cursor_pos(s, row, 0)
          [] OTHER  -> send_data(s, Trunc(c, 8))

\* switch (c): '\n' is 10, '\r' is 13; (uint8_t)c keeps the low byte of c
putc(s, c) ==
    LET row == get_cursor_row(s)
        col == get_cursor_col(s)
    IN  CASE c = 10 -> set_cursor_pos(s, BitXor(row, 1), col)
          [] c = 13 -> set_cursor_pos(s, row, 0)
          [] OTHER  -> send_data(s, Trunc(c, 8))

\* faulty variant: an empty read is reported as the character 0
Faulty_getc_Zero(s) == 0

\* return -1
getc(s) == -1

(***************************************************************************)
(* State.  The four data members of the one driver object; the client's    *)
(* position (pc): "ready" to call a method, or "returned" from the call    *)
(* lastOp, whose bus log is trace, whose return value is ret (<< >> for    *)
(* void) and which was entered with the data members pre.  incRun counts   *)
(* the increment steps taken on the orbit from the origin (OrbitSpec).     *)
(* A probe on the bus keeps, of what the calls made so far have written:   *)
(* lastCtrl, the last display-control instruction, and lastEntry, the last *)
(* entry-mode instruction (-1: none yet), when watching contains "masks";  *)
(* negotiated, the number of mode negotiations 0x3, 0x3, 0x3, 0x2, counted *)
(* up to MaxInit, when watching contains "negotiation"; addrCounter, the   *)
(* address counter of a controller that receives the transfers, when       *)
(* watching contains "controller".  isr is the << row, column >> that an   *)
(* interrupt handler read during the call in progress (<< >>: none); in    *)
(* IsrSpec pc also names the places inside a method where the handler can  *)
(* run: "step" before inc_cursor_loc / dec_cursor_loc, "check" between the *)
(* two stores of inc_cursor_loc, "update" before update_display_cursor_pos.*)
(***************************************************************************)
VARIABLES cursorLoc, displayState, cursorMovement, backlightMask,
          pc, lastOp, pre, trace, ret, incRun,
          watching, lastCtrl, lastEntry, negotiated, addrCounter, isr

vars == << cursorLoc, displayState, cursorMovement, backlightMask,
           pc, lastOp, pre, trace, ret, incRun,
           watching, lastCtrl, lastEntry, negotiated, addrCounter, isr >>

probe == << watching, lastCtrl, lastEntry, negotiated, addrCounter >>

Members(loc, ds, cm, bl) ==
    [cursorLoc |-> loc, displayState |-> ds, cursorMovement |-> cm, backlightMask |-> bl]

\* the object a method is entered with: the data members and an empty bus log
Self ==
    [cursorLoc |-> cursorLoc, displayState |-> displayState,
     cursorMovement |-> cursorMovement, backlightMask |-> backlightMask,
     bus |-> << >>]

NoOp == [name |-> "", args |-> << >>]

\* the call name(args) runs to completion: s is the object it leaves, rv what
\* it returned
Returns(name, args, s, rv) ==
    /\ pc = "ready"
    /\ pc' = "returned"
    /\ \E o \in {s} :
        /\ cursorLoc' = o.cursorLoc
        /\ displayState' = o.displayState
        /\ cursorMovement' = o.cursorMovement
        /\ backlightMask' = o.backlightMask
        /\ trace' = o.bus
    /\ lastOp' = [name |-> name, args |-> args]
    /\ pre' = Members(cursorLoc, displayState, cursorMovement, backlightMask)
    /\ ret' = rv

\* the nibbles the controller latches from a bus log: one for each write
\* with bit EN_ID (the enable strobe) set, as << bit RS_ID, high nibble >>
Latched(tr) ==
    LET en == SelectSeq(tr, LAMBDA e : e[1] = "w" /\ Shr(e[2], EN_ID) % 2 = 1)
    IN  [i \in 1..Len(en) |-> << Shr(en[i][2], RS_ID) % 2, Shr(en[i][2], 4) >>]

\* the transfers of a bus log: the latched nibbles two by two, high nibble
\* first, as << register select, byte >>
Transfers(tr) ==
    LET l == Latched(tr)
    IN  [k \in 1..(Len(l) \div 2) |-> << l[2 * k - 1][1], 16 * l[2 * k - 1][2] + l[2 * k][2] >>]

\* the instruction codes of the data sheet: display control is 0000 1DCB,
\* entry mode set is 0000 01IS
ControlCodes == LCD_CONTROL_DISPLAY .. (2 * LCD_CONTROL_DISPLAY - 1)
EntryCodes == LCD_SET_ENTRY_MODE .. (2 * LCD_SET_ENTRY_MODE - 1)

\* the last instruction among the transfers x with a code in codes, or else
\* before
LastInstr(x, codes, before) ==
    LET at == {k \in 1..Len(x) : x[k][1] = 0 /\ x[k][2] \in codes}
    IN  IF at = {} THEN before
        ELSE x[CHOOSE k \in at : \A j \in at : j <= k][2]

\* the number of times the instruction nibbles 0x3, 0x3, 0x3, 0x2 follow
\* one another in tr
Negotiations(tr) ==
    LET l == Latched(tr)
    IN  Cardinality({i \in 1..(Len(l) - 3) :
                        /\ \A j \in 0..2 : l[i + j] = << 0, 3 >>
                        /\ l[i + 3] = << 0, 2 >>})

\* the address counter of the controller steps by one with the two-line
\* wrap 0x27 <-> 0x40 and 0x67 <-> 0x00
CounterUp(a) == IF a = 39 THEN 64 ELSE IF a = 103 THEN 0 ELSE a + 1
CounterDown(a) == IF a = 64 THEN 39 ELSE IF a = 0 THEN 103 ELSE a - 1

\* the controller receives the transfer t with the address counter c[1] and
\* the direction bit c[2] of its entry mode: a data write steps the counter
\* in that direction; set DDRAM address (1xxx xxxx) loads it; cursor shift
\* (0001 0Rxx) steps it right or left, display shift (0001 1Rxx) does not
\* touch it; entry mode set (0000 01IS) loads the direction; cursor home
\* (0000 001x) and clear display (0000 0001) reset the counter to 0x00
Receive(c, t) ==
    LET b == t[2]
    IN  IF t[1] = 1 THEN << IF c[2] = 1 THEN CounterUp(c[1]) ELSE CounterDown(c[1]), c[2] >>
        ELSE IF b >= LCD_SET_DDRAMADDR THEN << b - LCD_SET_DDRAMADDR, c[2] >>
        ELSE IF b >= LCD_SET_CGRAMADDR THEN c
        ELSE IF b >= LCD_SET_FUNCTION THEN c
        ELSE IF b >= LCD_SHIFT_CURSOR
             THEN (IF Shr(b, 3) % 2 = 1 THEN c
                   ELSE << IF Shr(b, 2) % 2 = 1 THEN CounterUp(c[1]) ELSE CounterDown(c[1]),
                           c[2] >>)
        ELSE IF b >= LCD_CONTROL_DISPLAY THEN c
        ELSE IF b >= LCD_SET_ENTRY_MODE THEN << c[1], Shr(b, 1) % 2 >>
        ELSE IF b >= LCD_CLEAR_DISPLAY THEN << 0, c[2] >>
        ELSE c

\* the controller after the transfers x[k], x[k + 1], ...
RECURSIVE Controller(_, _, _)
Controller(c, x, k) ==
    IF k > Len(x) THEN c ELSE Controller(Receive(c, x[k]), x, k + 1)

\* the probe reads the bus log of the call that returns
Observe ==
    /\ watching' = watching
    /\ IF "masks" \in watching
       THEN \E x \in {Transfers(trace')} :
                /\ lastCtrl' = LastInstr(x, ControlCodes, lastCtrl)
                /\ lastEntry' = LastInstr(x, EntryCodes, lastEntry)
       ELSE UNCHANGED << lastCtrl, lastEntry >>
    /\ negotiated' = IF "negotiation" \in watching
                     THEN (IF negotiated + Negotiations(trace') < MaxInit
                           THEN negotiated + Negotiations(trace') ELSE MaxInit)
                     ELSE negotiated
    /\ addrCounter' = IF "controller" \in watching
                      THEN Controller(<< addrCounter, Shr(lastEntry, 1) % 2 >>,
                                      Transfers(trace'), 1)[1]
                      ELSE addrCounter

Call(name, args, s, rv) ==
    Returns(name, args, s, rv) /\ Observe /\ UNCHANGED << incRun, isr >>

\* the client goes on to its next call
Resume ==
    /\ pc = "returned"
    /\ pc' = "ready"
    /\ lastOp' = NoOp
    /\ pre' = Members(cursorLoc, displayState, cursorMovement, backlightMask)
    /\ trace' = << >>
    /\ ret' = << >>
    /\ isr' = << >>
    /\ UNCHANGED << cursorLoc, displayState, cursorMovement, backlightMask, incRun >>
    /\ UNCHANGED probe

\* HD44780LCD::HD44780LCD: cursorLoc {LCD_ORIG_ADDR_FIRST}, displayState {0},
\* cursorMovement {0}, backlightMask {0}
Constructed ==
    /\ cursorLoc = LCD_ORIG_ADDR_FIRST
    /\ displayState = 0
    /\ cursorMovement = 0
    /\ backlightMask = 0
    /\ pc = "returned"
    /\ lastOp = [name |-> "HD44780LCD", args |-> << >>]
    /\ pre = Members(LCD_ORIG_ADDR_FIRST, 0, 0, 0)
    /\ trace = << >>
    /\ ret = << >>
    /\ incRun = 0
    /\ lastCtrl = -1
    /\ lastEntry = -1
    /\ negotiated = 0
    /\ addrCounter = 0
    /\ isr = << >>

\* the probe is off
Init == Constructed /\ watching = {}

\* the constructed object after a first call of initialize(), and what the
\* probe has seen of that call
Initialized ==
    LET o == initialize([cursorLoc |-> LCD_ORIG_ADDR_FIRST, displayState |-> 0,
                         cursorMovement |-> 0, backlightMask |-> 0, bus |-> << >>])
    IN  /\ cursorLoc = o.cursorLoc
        /\ displayState = o.displayState
        /\ cursorMovement = o.cursorMovement
        /\ backlightMask = o.backlightMask
        /\ pc = "returned"
        /\ lastOp = [name |-> "initialize", args |-> << >>]
        /\ pre = Members(LCD_ORIG_ADDR_FIRST, 0, 0, 0)
        /\ trace = o.bus
        /\ ret = << >>
        /\ incRun = 0
        /\ lastCtrl = LastInstr(Transfers(o.bus), ControlCodes, -1)
        /\ lastEntry = LastInstr(Transfers(o.bus), EntryCodes, -1)
        /\ negotiated = 0
        /\ addrCounter = Controller(<< 0, 1 >>, Transfers(o.bus), 1)[1]
        /\ isr = << >>

\* the probe follows the two instructions that carry the masks
MasksInit == Initialized /\ watching = {"masks"}

\* the probe follows them and the address counter of the controller
ControllerInit == Initialized /\ watching = {"masks", "controller"}

\* the probe counts the mode negotiations
NegotiationInit == Constructed /\ watching = {"negotiation"}

Call_initialize == Call("initialize", << >>, initialize(Self), << >>)

Call_send_data(byte) == Call("send_data", << byte >>, send_data(Self, byte), << >>)

Call_send_buffer(buf) == Call("send_buffer", buf, send_buffer(Self, buf), << >>)

Call_create_custom_char(loc, glyph) ==
    Call("create_custom_char", << loc >> \o glyph, create_custom_char(Self, loc, glyph), << >>)

Call_enable_backlight == Call("enable_backlight", << >>, enable_backlight(Self), << >>)

Call_disable_backlight == Call("disable_backlight", << >>, disable_backlight(Self), << >>)

Call_toggle_backlight == Call("toggle_backlight", << >>, toggle_backlight(Self), << >>)

Call_is_backlight_on == Call("is_backlight_on", << >>, Self, << is_backlight_on(Self) >>)

Call_set_cursor_auto_dec == Call("set_cursor_auto_dec", << >>, set_cursor_auto_dec(Self), << >>)

Call_set_cursor_auto_inc == Call("set_cursor_auto_inc", << >>, set_cursor_auto_inc(Self), << >>)

Call_set_display_auto_dec == Call("set_display_auto_dec", << >>, set_display_auto_dec(Self), << >>)

Call_set_display_auto_inc == Call("set_display_auto_inc", << >>, set_display_auto_inc(Self), << >>)

Call_get_entry_mode == Call("get_entry_mode", << >>, Self, << get_entry_mode(Self) >>)

Call_clear_display == Call("clear_display", << >>, clear_display(Self), << >>)

Call_enable_display == Call("enable_display", << >>, enable_display(Self), << >>)

Call_disable_display == Call("disable_display", << >>, disable_display(Self), << >>)

Call_toggle_display == Call("toggle_display", << >>, toggle_display(Self), << >>)

Call_is_display_enabled == Call("is_display_enabled", << >>, Self, << is_display_enabled(Self) >>)

Call_set_cursor_home == Call("set_cursor_home", << >>, set_cursor_home(Self), << >>)

Call_move_cursor_left == Call("move_cursor_left", << >>, move_cursor_left(Self), << >>)

Call_move_cursor_right == Call("move_cursor_right", << >>, move_cursor_right(Self), << >>)

Call_set_cursor_pos(r, c) ==
    Call("set_cursor_pos", << r, c >>, set_cursor_pos(Self, r, c), << >>)

Call_get_cursor_row == Call("get_cursor_row", << >>, Self, << get_cursor_row(Self) >>)

Call_get_cursor_col == Call("get_cursor_col", << >>, Self, << get_cursor_col(Self) >>)

Call_enable_cursor_display ==
    Call("enable_cursor_display", << >>, enable_cursor_display(Self), << >>)

Call_disable_cursor_display ==
    Call("disable_cursor_display", << >>, disable_cursor_display(Self), << >>)

Call_toggle_cursor_display ==
    Call("toggle_cursor_display", << >>, toggle_cursor_display(Self), << >>)

Call_is_cursor_displayed ==
    Call("is_cursor_displayed", << >>, Self, << is_cursor_displayed(Self) >>)

Call_enable_blinking_cursor ==
    Call("enable_blinking_cursor", << >>, enable_blinking_cursor(Self), << >>)

Call_disable_blinking_cursor ==
    Call("disable_blinking_cursor", << >>, disable_blinking_cursor(Self), << >>)

Call_toggle_blinking_cursor ==
    Call("toggle_blinking_cursor", << >>, toggle_blinking_cursor(Self), << >>)

Call_is_blinking_cursor_displayed ==
    Call("is_blinking_cursor_displayed", << >>, Self, << is_blinking_cursor_displayed(Self) >>)

Call_scroll_display_left == Call("scroll_display_left", << >>, scroll_display_left(Self), << >>)

Call_scroll_display_right == Call("scroll_display_right", << >>, scroll_display_right(Self), << >>)

\* return this
Call_get_stream == Call("get_stream", << >>, get_stream(Self), << "this" >>)

\* every path of _putc returns 0
Call_putc(c) == Call("_putc", << c >>, putc(Self, c), << 0 >>)

Call_getc == Call("_getc", << >>, Self, << getc(Self) >>)

Next ==
    \/ Call_initialize
    \/ \E byte \in DataBytes : Call_send_data(byte)
    \/ \E buf \in Buffers : Call_send_buffer(buf)
    \/ \E loc \in 0..MaxSlot, glyph \in Glyphs : Call_create_custom_char(loc, glyph)
    \/ Call_enable_backlight
    \/ Call_disable_backlight
    \/ Call_toggle_backlight
    \/ Call_is_backlight_on
    \/ Call_set_cursor_auto_dec
    \/ Call_set_cursor_auto_inc
    \/ Call_set_display_auto_dec
    \/ Call_set_display_auto_inc
    \/ Call_get_entry_mode
    \/ Call_clear_display
    \/ Call_enable_display
    \/ Call_disable_display
    \/ Call_toggle_display
    \/ Call_is_display_enabled
    \/ Call_set_cursor_home
    \/ Call_move_cursor_left
    \/ Call_move_cursor_right
    \/ \E r \in 0..MaxRow, c \in Cols : Call_set_cursor_pos(r, c)
    \/ Call_get_cursor_row
    \/ Call_get_cursor_col
    \/ Call_enable_cursor_display
    \/ Call_disable_cursor_display
    \/ Call_toggle_cursor_display
    \/ Call_is_cursor_displayed
    \/ Call_enable_blinking_cursor
    \/ Call_disable_blinking_cursor
    \/ Call_toggle_blinking_cursor
    \/ Call_is_blinking_cursor_displayed
    \/ Call_scroll_display_left
    \/ Call_scroll_display_right
    \/ Call_get_stream
    \/ \E c \in PutcChars : Call_putc(c)
    \/ Call_getc
    \/ Resume

Spec == Init /\ [][Next]_vars

\* the same client after its first call, initialize(), with the probe on the
\* display-control and entry-mode instructions
MasksSpec == MasksInit /\ [][Next]_vars

(***************************************************************************)
(* A client that initializes, takes the stream, writes data and switches   *)
(* the backlight, with the probe counting the mode negotiations.           *)
(***************************************************************************)
NegotiationNext ==
    \/ Call_initialize
    \/ Call_get_stream
    \/ \E byte \in DataBytes : Call_send_data(byte)
    \/ Call_toggle_backlight
    \/ Resume

NegotiationSpec == NegotiationInit /\ [][NegotiationNext]_vars

(***************************************************************************)
(* A client that, after initialize(), writes data, moves the cursor and    *)
(* clears the display, and never scrolls it, side by side with the         *)
(* controller.                                                             *)
(***************************************************************************)
ControllerNext ==
    \/ Call_initialize
    \/ \E byte \in DataBytes : Call_send_data(byte)
    \/ Call_set_cursor_auto_dec
    \/ Call_set_cursor_auto_inc
    \/ Call_clear_display
    \/ Call_set_cursor_home
    \/ Call_move_cursor_left
    \/ Call_move_cursor_right
    \/ Resume

ControllerSpec == ControllerInit /\ [][ControllerNext]_vars

(***************************************************************************)
(* The orbit of the increment step: from the constructed object, whose     *)
(* cursor is at the origin, the client only takes increment steps          *)
(* (move_cursor_right, or send_data once initialize has set the increment  *)
(* entry mode) and counts them in incRun.                                  *)
(***************************************************************************)
Orbit_move_cursor_right ==
    /\ incRun < MaxRun
    /\ Returns("move_cursor_right", << >>, move_cursor_right(Self), << >>)
    /\ incRun' = incRun + 1
    /\ UNCHANGED << probe, isr >>

Orbit_send_data(byte) ==
    /\ incRun < MaxRun
    /\ BitAnd(cursorMovement, LCD_CURSOR_POS_INC) # 0
    /\ Returns("send_data", << byte >>, send_data(Self, byte), << >>)
    /\ incRun' = incRun + 1
    /\ UNCHANGED << probe, isr >>

OrbitNext ==
    \/ Call_initialize
    \/ Orbit_move_cursor_right
    \/ \E byte \in DataBytes : Orbit_send_data(byte)
    \/ Resume

OrbitSpec == Init /\ [][OrbitNext]_vars

(***************************************************************************)
(* Interrupts.  cursorLoc is a plain uint32_t that the thread writes and   *)
(* the handler reads (get_cursor_row, get_cursor_col): a method that       *)
(* changes it runs store by store, and the handler can run between two     *)
(* stores.  The compiler may write ++cursorLoc to memory before the range  *)
(* checks of inc_cursor_loc (Store_inc_cursor_loc, Check_inc_cursor_loc)   *)
(* or keep it in a register and write the final value only                 *)
(* (Fused_inc_cursor_loc): both builds are behaviours.                     *)
(***************************************************************************)
\* the method name(args) is entered and runs up to the place at: the tracked
\* address is then loc and the bus log bus
Enter(name, args, at, loc, bus) ==
    /\ pc = "ready"
    /\ pc' = at
    /\ lastOp' = [name |-> name, args |-> args]
    /\ pre' = Members(cursorLoc, displayState, cursorMovement, backlightMask)
    /\ cursorLoc' = loc
    /\ trace' = bus
    /\ ret' = << >>
    /\ UNCHANGED << displayState, cursorMovement, backlightMask, incRun, probe, isr >>

\* inside the method: the tracked address becomes loc, bus is added to the
\* bus log, and the method goes on at the place at
Within(from, at, loc, bus) ==
    /\ pc = from
    /\ pc' = at
    /\ cursorLoc' = loc
    /\ trace' = trace \o bus
    /\ UNCHANGED << displayState, cursorMovement, backlightMask, lastOp, pre, ret,
                    incRun, probe, isr >>

\* con.send_byte(byte, 1) is done
Enter_send_data(byte) ==
    Enter("send_data", << byte >>, "step", cursorLoc, send_byte(Self, byte, 1).bus)

\* con.send_byte(LCD_SHIFT_CURSOR | LCD_CURSOR_MOVE_LT, 0) is done
Enter_move_cursor_left ==
    Enter("move_cursor_left", << >>, "step", cursorLoc,
          send_byte(Self, BitOr(LCD_SHIFT_CURSOR, LCD_CURSOR_MOVE_LT), 0).bus)

\* con.send_byte(LCD_SHIFT_CURSOR | LCD_CURSOR_MOVE_RT, 0) is done
Enter_move_cursor_right ==
    Enter("move_cursor_right", << >>, "step", cursorLoc,
          send_byte(Self, BitOr(LCD_SHIFT_CURSOR, LCD_CURSOR_MOVE_RT), 0).bus)

\* the early return, or cursorLoc is assigned
Enter_set_cursor_pos(r, c) ==
    IF r > 1 \/ c > LCD_LINE_SIZE
    THEN Enter("set_cursor_pos", << r, c >>, "returned", cursorLoc, << >>)
    ELSE Enter("set_cursor_pos", << r, c >>, "update",
               (IF r # 0 THEN LCD_ORIG_ADDR_SECOND ELSE LCD_ORIG_ADDR_FIRST) + c, << >>)

Finish_set_cursor_pos ==
    Within("update", "returned", cursorLoc, update_display_cursor_pos(Self).bus)

\* the method in progress calls inc_cursor_loc (otherwise dec_cursor_loc)
StepsForward ==
    \/ lastOp.name = "move_cursor_right"
    \/ lastOp.name = "send_data" /\ BitAnd(cursorMovement, LCD_CURSOR_POS_INC) # 0

Store_inc_cursor_loc ==
    /\ StepsForward
    /\ Within("step", "check", inc_cursor_loc_store(Self).cursorLoc, << >>)

Check_inc_cursor_loc ==
    Within("check", "returned", inc_cursor_loc_check(Self).cursorLoc, << >>)

Fused_inc_cursor_loc ==
    /\ StepsForward
    /\ Within("step", "returned", inc_cursor_loc(Self).cursorLoc, << >>)

\* every path of dec_cursor_loc stores cursorLoc once
Run_dec_cursor_loc ==
    /\ ~StepsForward
    /\ Within("step", "returned", dec_cursor_loc(Self).cursorLoc, << >>)

\* the handler calls get_cursor_row() and get_cursor_col()
Interrupt ==
    /\ pc \in {"step", "check", "update"}
    /\ isr' = << get_cursor_row(Self), get_cursor_col(Self) >>
    /\ UNCHANGED << cursorLoc, displayState, cursorMovement, backlightMask,
                    pc, lastOp, pre, trace, ret, incRun, probe >>

IsrNext ==
    \/ Call_initialize
    \/ Call_set_cursor_auto_dec
    \/ \E byte \in DataBytes : Enter_send_data(byte)
    \/ Enter_move_cursor_left
    \/ Enter_move_cursor_right
    \/ \E r \in 0..MaxRow, c \in Cols \ {LCD_LINE_SIZE} : Enter_set_cursor_pos(r, c)
    \/ Finish_set_cursor_pos
    \/ Store_inc_cursor_loc
    \/ Check_inc_cursor_loc
    \/ Fused_inc_cursor_loc
    \/ Run_dec_cursor_loc
    \/ Interrupt
    \/ Resume

IsrSpec == Init /\ [][IsrNext]_vars

(***************************************************************************)
(* Vocabulary of the properties.  Addresses, rows and columns are written  *)
(* as the data sheet writes them: row r, column c is address 64 * r + c.   *)
(***************************************************************************)
Returned(name) == pc = "returned" /\ lastOp.name = name

AddrOf(r, c) == 64 * r + c
RowOf(a) == a \div 64
ColOf(a) == a % 64
InRange(a) == a \in (0..39) \cup (64..103)

\* the bytes written to the bus, in order
Writes(tr) ==
    LET w == SelectSeq(tr, LAMBDA e : e[1] = "w")
    IN  [i \in 1..Len(w) |-> w[i][2]]

\* the place in the log of the k-th write (0 for k = 0, past the end of the
\* log when there are fewer than k writes)
WriteAt(tr, k) ==
    LET at == SelectSeq([i \in 1..Len(tr) |-> i], LAMBDA i : tr[i][1] = "w")
    IN  IF k = 0 THEN 0
        ELSE IF k > Len(at) THEN Len(tr) + 1
        ELSE at[k]

RECURSIVE Slept(_, _, _)
Slept(tr, from, to) ==
    IF from > to THEN 0
    ELSE (IF tr[from][1] = "d" THEN tr[from][2] ELSE 0) + Slept(tr, from + 1, to)

\* the time slept between the k-th write and the next one (the end of the
\* call after the last write, its start for k = 0)
SleptAfter(tr, k) == Slept(tr, WriteAt(tr, k) + 1, WriteAt(tr, k + 1) - 1)

\* the three phases of one nibble on the wire: enable strobe low, high, low
NibbleFrame(n, isData, light) ==
    LET v == 16 * n + isData + light IN << v, v + 4, v >>

\* a byte on the wire: the high nibble, then the low nibble
ByteFrame(b, isData, light) ==
    NibbleFrame(b \div 16, isData, light) \o NibbleFrame(b % 16, isData, light)

\* the methods that make exactly one transfer of a fixed byte, with the byte
\* and its register select
OneTransfer ==
    [clear_display |-> << 1, 0 >>, set_cursor_home |-> << 2, 0 >>,
     move_cursor_left |-> << 16, 0 >>, move_cursor_right |-> << 20, 0 >>,
     scroll_display_left |-> << 24, 0 >>, scroll_display_right |-> << 28, 0 >>]

BacklightOps == {"enable_backlight", "disable_backlight", "toggle_backlight"}

(***************************************************************************)
(* Properties                                                              *)
(***************************************************************************)

\* C1: in every reachable state the tracked cursor address lies in
\* [0x00,0x28) or [0x40,0x68): never in the gap, never at or past 0x68.
C1_AddressInRange == InRange(cursorLoc)

\* C2: decrement is the exact inverse of increment: from every reachable
\* tracked address, one increment step followed by one decrement step
\* restores the address.
C2_DecInvertsInc == dec_cursor_loc(inc_cursor_loc(Self)).cursorLoc = cursorLoc

\* C3: from (0,0), n increment steps lead to column n of row 0 for n < 40,
\* to column n - 40 of row 1 for 40 <= n < 80, and back to (0,0) at n = 80:
\* 40 steps yield (1,0), 80 steps yield (0,0), and the 80 addresses visited
\* on the way are the 80 in-range addresses, each once.
C3_Orbit ==
    LET n == incRun % 80
    IN  /\ cursorLoc = (IF n < 40 THEN AddrOf(0, n) ELSE AddrOf(1, n - 40))
        /\ (cursorLoc = AddrOf(0, 0) <=> n = 0)

C3_Witness == incRun = 80 /\ cursorLoc = AddrOf(0, 0) /\ Returned("move_cursor_right")

\* C4: for row in {0,1} and column in [0,40), after set_cursor_pos(row, column)
\* get_cursor_row() and get_cursor_col() return (row, column), and the call
\* has written exactly one instruction byte: set DDRAM address
\* (0x80) + row base (0x00 or 0x40) + column.
C4_SetPosRoundTrip ==
    (Returned("set_cursor_pos") /\ lastOp.args[1] \in {0, 1} /\ lastOp.args[2] \in 0..39)
        => /\ get_cursor_row(Self) = lastOp.args[1]
           /\ get_cursor_col(Self) = lastOp.args[2]
           /\ Writes(trace) = ByteFrame(128 + AddrOf(lastOp.args[1], lastOp.args[2]), 0,
                                        backlightMask)

C4_Witness ==
    /\ Returned("set_cursor_pos")
    /\ lastOp.args = << 1, 39 >>
    /\ pre.cursorLoc = AddrOf(0, 15)
    /\ cursorLoc = AddrOf(1, 39)

\* C5: set_cursor_pos(row, col) with row not in {0,1} or col above the row
\* width 0x28 changes no data member and writes nothing to the bus.
C5_SetPosRejected ==
    (Returned("set_cursor_pos") /\ (lastOp.args[1] \notin {0, 1} \/ lastOp.args[2] > 40))
        => /\ Members(cursorLoc, displayState, cursorMovement, backlightMask) = pre
           /\ trace = << >>

C5_Witness ==
    /\ Returned("set_cursor_pos")
    /\ lastOp.args = << 0, 41 >>
    /\ pre.cursorLoc = AddrOf(1, 39)
    /\ pre.backlightMask = 8

\* the calls that take exactly one increment step, and exactly one
\* decrement step
IncStepTaken ==
    \/ Returned("move_cursor_right")
    \/ Returned("send_data") /\ (pre.cursorMovement \div 2) % 2 = 1

DecStepTaken ==
    \/ Returned("move_cursor_left")
    \/ Returned("send_data") /\ (pre.cursorMovement \div 2) % 2 = 0

\* C6: one increment step from an in-range address: (0,c) -> (0,c+1) and
\* (1,c) -> (1,c+1) for c < 39, (0,39) -> (1,0), (1,39) -> (0,0).
C6_IncStep ==
    (IncStepTaken /\ InRange(pre.cursorLoc))
        => LET r == RowOf(pre.cursorLoc)
               c == ColOf(pre.cursorLoc)
           IN  cursorLoc = (IF c < 39 THEN AddrOf(r, c + 1) ELSE AddrOf(1 - r, 0))

C6_Witness ==
    /\ Returned("move_cursor_right")
    /\ pre.cursorLoc = AddrOf(0, 39)
    /\ cursorLoc = AddrOf(1, 0)

\* C7: one decrement step from an in-range address: (0,0) -> (1,39),
\* (1,0) -> (0,39), every other (r,c) -> (r,c-1).
C7_DecStep ==
    (DecStepTaken /\ InRange(pre.cursorLoc))
        => LET r == RowOf(pre.cursorLoc)
               c == ColOf(pre.cursorLoc)
           IN  cursorLoc = (IF c > 0 THEN AddrOf(r, c - 1) ELSE AddrOf(1 - r, 39))

C7_Witness ==
    /\ Returned("move_cursor_left")
    /\ pre.cursorLoc = AddrOf(0, 0)
    /\ cursorLoc = AddrOf(1, 39)

\* C8: one send_byte(byte, isData) writes exactly six bytes: the three
\* phases v, v|0x04, v of the high nibble, then those of the low nibble,
\* with v = (n<<4) | isData | backlight bit.  Checked on every method that
\* makes a single transfer: send_data(byte) and the fixed instructions.
C8_SendByteFraming ==
    /\ Returned("send_data")
        => Writes(trace) = ByteFrame(lastOp.args[1], 1, backlightMask)
    /\ (pc = "returned" /\ lastOp.name \in DOMAIN OneTransfer)
        => Writes(trace) = ByteFrame(OneTransfer[lastOp.name][1],
                                     OneTransfer[lastOp.name][2], backlightMask)

C8_Witness ==
    /\ Returned("send_data")
    /\ lastOp.args = << 72 >>
    /\ backlightMask = 8
    /\ Writes(trace) = << 73, 77, 73, 137, 141, 137 >>

\* C9: a method other than the three backlight methods leaves the stored
\* backlight state as it was, and bit 3 of every byte it writes to the bus
\* is that state.
C9_BacklightKept ==
    (pc = "returned" /\ lastOp.name \notin BacklightOps)
        => /\ backlightMask = pre.backlightMask
           /\ \A i \in 1..Len(trace) :
                  trace[i][1] = "w" => (trace[i][2] \div 8) % 2 = backlightMask \div 8

C9_Witness ==
    /\ Returned("initialize")
    /\ pre.backlightMask = 8
    /\ Len(Writes(trace)) = 42

\* C10: initialize() sleeps at least 50, writes the nibble 0x3 three times,
\* each followed by at least 5, the nibble 0x2 followed by at least 2, then
\* the instruction bytes 0x28, 0x01, 0x02, 0x0C, 0x06, each followed by at
\* least 2, and writes nothing else.
C10_InitTrace ==
    Returned("initialize")
        => LET light == pre.backlightMask
           IN  /\ Writes(trace) =
                      NibbleFrame(3, 0, light) \o NibbleFrame(3, 0, light)
                   \o NibbleFrame(3, 0, light) \o NibbleFrame(2, 0, light)
                   \o ByteFrame(40, 0, light) \o ByteFrame(1, 0, light)
                   \o ByteFrame(2, 0, light) \o ByteFrame(12, 0, light)
                   \o ByteFrame(6, 0, light)
               /\ SleptAfter(trace, 0) >= 50
               /\ \A k \in {3, 6, 9} : SleptAfter(trace, k) >= 5
               /\ SleptAfter(trace, 12) >= 2
               /\ \A k \in {18, 24, 30, 36, 42} : SleptAfter(trace, k) >= 2

C10_Witness ==
    /\ Returned("initialize")
    /\ pre.displayState = 7
    /\ pre.cursorMovement = 1
    /\ pre.backlightMask = 8


\* C11: over any sequence of calls on one object, repeated initialize() and
\* get_stream() included, the mode negotiation 0x3, 0x3, 0x3, 0x2 is written
\* to the bus at most once.
C11_NegotiatedOnce == negotiated <= 1

\* C12: in every sequence of calls that begins with initialize(), whenever
\* a call has returned, the last display-control instruction written to the
\* bus is 0x08 | displayState and the last entry-mode instruction written is
\* 0x04 | cursorMovement.
C12_MasksPushed ==
    /\ displayState \in 0..7 /\ lastCtrl = 8 + displayState
    /\ cursorMovement \in 0..3 /\ lastEntry = 4 + cursorMovement

C12_Witness ==
    /\ Returned("set_display_auto_dec")
    /\ lastEntry = 7
    /\ lastCtrl = 13
    /\ displayState = 5

\* the methods that enable, disable or toggle a bit of the display-control
\* mask
DisplayControlOps ==
    {"enable_display", "disable_display", "toggle_display",
     "enable_cursor_display", "disable_cursor_display", "toggle_cursor_display",
     "enable_blinking_cursor", "disable_blinking_cursor", "toggle_blinking_cursor"}

\* C13: each enable/disable/toggle of the display, underline-cursor or blink
\* bit makes exactly one instruction transfer, of the byte 0x08 | the whole
\* updated three-bit mask; enable_blinking_cursor() with the underline cursor
\* enabled sends one byte with both bits set.
C13_OneControlByte ==
    (pc = "returned" /\ lastOp.name \in DisplayControlOps)
        => /\ displayState \in 0..7
           /\ Writes(trace) = ByteFrame(8 + displayState, 0, backlightMask)
           /\ (Returned("enable_blinking_cursor") /\ (pre.displayState \div 2) % 2 = 1)
                => displayState % 4 = 3

C13_Witness ==
    /\ Returned("enable_blinking_cursor")
    /\ pre.displayState = 6
    /\ Writes(trace) = ByteFrame(15, 0, backlightMask)

\* the bytes of a buffer on the wire, as data transfers in index order
RECURSIVE DataFrames(_, _)
DataFrames(bytes, light) ==
    IF bytes = << >> THEN << >>
    ELSE ByteFrame(Head(bytes), 1, light) \o DataFrames(Tail(bytes), light)

\* C14: for a slot in 0..7, create_custom_char(slot, glyph) writes exactly
\* the instruction 0x40 | (slot * 8), the 8 glyph bytes as data transfers in
\* index order, and the set-DDRAM-address instruction of the row and column
\* the cursor had before the call; the tracked address is left as it was.
C14_CustomChar ==
    (Returned("create_custom_char") /\ lastOp.args[1] \in 0..7)
        => /\ Writes(trace) =
                  ByteFrame(64 + 8 * lastOp.args[1], 0, backlightMask)
               \o DataFrames(SubSeq(lastOp.args, 2, 9), backlightMask)
               \o ByteFrame(128 + AddrOf(RowOf(pre.cursorLoc), ColOf(pre.cursorLoc)), 0,
                            backlightMask)
           /\ cursorLoc = pre.cursorLoc

C14_Witness ==
    /\ Returned("create_custom_char")
    /\ lastOp.args[1] = 3
    /\ pre.cursorLoc = AddrOf(1, 15)
    /\ Len(Writes(trace)) = 60

\* the 80 cells in the order of the increment step, from (0,0)
CellIndex(a) == 40 * RowOf(a) + ColOf(a)
CellAddr(n) == AddrOf(n \div 40, n % 40)

\* C15: with the increment bit of the entry mode set, send_buffer(buf, n)
\* from an in-range address p makes exactly n data transfers, of buf[0], ...,
\* buf[n-1] in that order, makes no instruction transfer, and leaves the
\* tracked address n increment steps after p ("HI" from (0,0) ends at (0,2)).
C15_SendBuffer ==
    (/\ Returned("send_buffer")
     /\ (pre.cursorMovement \div 2) % 2 = 1
     /\ InRange(pre.cursorLoc))
        => /\ Writes(trace) = DataFrames(lastOp.args, backlightMask)
           /\ cursorLoc = CellAddr((CellIndex(pre.cursorLoc) + Len(lastOp.args)) % 80)

C15_Witness ==
    /\ Returned("send_buffer")
    /\ lastOp.args = << 72, 73 >>
    /\ pre.cursorMovement = 2
    /\ pre.cursorLoc = AddrOf(0, 0)
    /\ cursorLoc = AddrOf(0, 2)

\* C16: is_display_enabled() returns true exactly when the display-enable
\* bit (0x04) of the display-control mask is set, whatever the underline
\* cursor and blink bits are.
C16_DisplayEnabledBit ==
    Returned("is_display_enabled") => (ret[1] = ((displayState \div 4) % 2 = 1))

\* the entry-mode setters, with the mode get_entry_mode() names afterwards
\* and the instruction byte sent
EntrySetters ==
    [set_cursor_auto_inc |-> << "CURSOR_INC", 6 >>,
     set_cursor_auto_dec |-> << "CURSOR_DEC", 4 >>,
     set_display_auto_inc |-> << "DISPLAY_INC", 5 >>,
     set_display_auto_dec |-> << "DISPLAY_DEC", 7 >>]

\* C17: after each entry-mode setter get_entry_mode() returns the mode of the
\* setter's name, and the setter has written exactly one instruction byte:
\* 0x06 for set_cursor_auto_inc, 0x04 for set_cursor_auto_dec, 0x05 for
\* set_display_auto_inc, 0x07 for set_display_auto_dec.
C17_EntryModeRoundTrip ==
    (pc = "returned" /\ lastOp.name \in DOMAIN EntrySetters)
        => /\ get_entry_mode(Self) = EntrySetters[lastOp.name][1]
           /\ Writes(trace) = ByteFrame(EntrySetters[lastOp.name][2], 0, backlightMask)

C17_Witness ==
    /\ Returned("set_display_auto_inc")
    /\ pre.cursorMovement = 2
    /\ cursorMovement = 1

\* C18: whenever initialize() returns, whatever the data members were, the
\* display-control mask is display enabled, underline cursor disabled, blink
\* disabled (0x04), and the entry mode is cursor move with increment:
\* get_entry_mode() is CURSOR_INC.
C18_InitDefaults ==
    (pc = "returned" /\ lastOp.name \in {"initialize", "get_stream"})
        => /\ displayState = 4
           /\ cursorMovement = 2
           /\ get_entry_mode(Self) = "CURSOR_INC"

C18_Witness ==
    /\ Returned("initialize")
    /\ pre.displayState = 3
    /\ pre.cursorMovement = 1
    /\ displayState = 4

\* C19: _putc(c) from any position (row, col): '\n' moves the cursor to
\* (row XOR 1, col) with one set-address instruction; '\r' moves it to
\* (row, 0) with one set-address instruction; any other c sends the low byte
\* of c as exactly one data transfer and steps the cursor as the entry mode
\* says; 0 is returned in every case.
C19_Putc ==
    Returned("_putc")
        => LET c == lastOp.args[1]
               r == RowOf(pre.cursorLoc)
               col == ColOf(pre.cursorLoc)
               n == CellIndex(pre.cursorLoc)
           IN  /\ ret = << 0 >>
               /\ c = 10
                    => /\ cursorLoc = AddrOf(1 - r, col)
                       /\ Writes(trace) = ByteFrame(128 + AddrOf(1 - r, col), 0, backlightMask)
               /\ c = 13
                    => /\ cursorLoc = AddrOf(r, 0)
                       /\ Writes(trace) = ByteFrame(128 + AddrOf(r, 0), 0, backlightMask)
               /\ c \notin {10, 13}
                    => /\ Writes(trace) = ByteFrame(c % 256, 1, backlightMask)
                       /\ InRange(pre.cursorLoc)
                            => cursorLoc = (IF (pre.cursorMovement \div 2) % 2 = 1
                                            THEN CellAddr((n + 1) % 80)
                                            ELSE CellAddr((n + 79) % 80))

C19_Witness ==
    /\ Returned("_putc")
    /\ lastOp.args = << 10 >>
    /\ pre.cursorLoc = AddrOf(1, 15)
    /\ cursorLoc = AddrOf(0, 15)

\* C20: _getc() returns -1, writes nothing to the bus and changes no data
\* member, in every reachable state.
C20_GetcFails ==
    Returned("_getc")
        => /\ ret = << -1 >>
           /\ trace = << >>
           /\ Members(cursorLoc, displayState, cursorMovement, backlightMask) = pre

C20_Witness ==
    /\ Returned("_getc")
    /\ ret = << -1 >>
    /\ pre.cursorLoc = AddrOf(1, 39)
    /\ pre.displayState = 7


\* C21: enable_backlight, disable_backlight and toggle_backlight each make
\* exactly one bus write, of a byte that holds the backlight bit alone (0x08
\* on, 0x00 off); afterwards is_backlight_on() reports the new state, and the
\* tracked address and the two masks are as they were.
C21_BacklightWrite ==
    (pc = "returned" /\ lastOp.name \in BacklightOps)
        => /\ backlightMask \in {0, 8}
           /\ Writes(trace) = << backlightMask >>
           /\ is_backlight_on(Self) = (backlightMask = 8)
           /\ is_backlight_on(Self) =
                  CASE lastOp.name = "enable_backlight" -> TRUE
                    [] lastOp.name = "disable_backlight" -> FALSE
                    [] lastOp.name = "toggle_backlight" -> (pre.backlightMask = 0)
           /\ cursorLoc = pre.cursorLoc
           /\ displayState = pre.displayState
           /\ cursorMovement = pre.cursorMovement

C21_Witness ==
    /\ Returned("toggle_backlight")
    /\ pre.backlightMask = 8
    /\ Writes(trace) = << 0 >>
    /\ pre.displayState = 5

\* C22: every bus write of every method is followed by a sleep before the
\* method writes again or returns.
C22_WriteThenDelay ==
    pc = "returned"
        => \A i \in 1..Len(trace) :
               trace[i][1] = "w"
                   => (i < Len(trace) /\ trace[i + 1][1] = "d" /\ trace[i + 1][2] > 0)

\* the const methods of the public interface
Accessors ==
    {"get_cursor_row", "get_cursor_col", "is_backlight_on", "is_display_enabled",
     "is_cursor_displayed", "is_blinking_cursor_displayed", "get_entry_mode"}

\* C23: the accessors write nothing to the bus, do not sleep and leave every
\* data member as it was; the row and the column returned are those of the
\* tracked address.
C23_AccessorsPure ==
    (pc = "returned" /\ lastOp.name \in Accessors)
        => /\ trace = << >>
           /\ Members(cursorLoc, displayState, cursorMovement, backlightMask) = pre
           /\ Returned("get_cursor_row") => ret = << RowOf(cursorLoc) >>
           /\ Returned("get_cursor_col") => ret = << ColOf(cursorLoc) >>

C23_Witness ==
    /\ Returned("get_cursor_col")
    /\ cursorLoc = AddrOf(1, 39)
    /\ ret = << 39 >>

\* the methods documented as not altering the cursor position
KeepsCursorOps ==
    BacklightOps \cup DOMAIN EntrySetters \cup DisplayControlOps
        \cup {"clear_display", "create_custom_char", "get_stream"}

\* C24: the methods documented as not altering the cursor position leave
\* get_cursor_row() and get_cursor_col() as they were, from every reachable
\* state.
C24_CursorKept ==
    (pc = "returned" /\ lastOp.name \in KeepsCursorOps)
        => /\ get_cursor_row(Self) = get_cursor_row(pre)
           /\ get_cursor_col(Self) = get_cursor_col(pre)

C24_Witness ==
    /\ Returned("clear_display")
    /\ pre.cursorLoc = AddrOf(1, 15)
    /\ get_cursor_row(Self) = 1
    /\ get_cursor_col(Self) = 15

\* C25: get_stream() returns the object without writing to the bus and
\* without sleeping.
C25_GetStreamSilent == Returned("get_stream") => (ret = << "this" >> /\ trace = << >>)

\* C26: side by side with a controller that reacts only to the bytes it
\* receives, after every call of a sequence that starts with initialize()
\* and never scrolls the display, the tracked address is the controller's
\* address counter and the two masks are the controller's display-control
\* and entry-mode registers.
C26_ControllerAgrees ==
    /\ cursorLoc = addrCounter
    /\ lastCtrl = 8 + displayState
    /\ lastEntry = 4 + cursorMovement

\* C27: send_data(byte) makes exactly one data transfer (RS = 1) and no
\* set-address instruction, also when the tracked address wraps to the other
\* row; the tracked address takes one increment step when the direction bit
\* of cursorMovement is set and one decrement step otherwise.
C27_SendData ==
    Returned("send_data")
        => LET n == CellIndex(pre.cursorLoc)
               inc == (pre.cursorMovement \div 2) % 2 = 1
           IN  /\ Transfers(trace) = << << 1, lastOp.args[1] >> >>
               /\ Len(Writes(trace)) = 6
               /\ cursorLoc = (IF inc THEN inc_cursor_loc(pre).cursorLoc
                                      ELSE dec_cursor_loc(pre).cursorLoc)
               /\ InRange(pre.cursorLoc)
                    => cursorLoc = CellAddr((n + (IF inc THEN 1 ELSE 79)) % 80)

C27_Witness ==
    /\ Returned("send_data")
    /\ pre.cursorMovement = 2
    /\ pre.cursorLoc = AddrOf(0, 39)
    /\ cursorLoc = AddrOf(1, 0)
    /\ Len(Writes(trace)) = 6

\* C28: set_cursor_pos(r, 40) with r in {0,1} is accepted: the tracked
\* address becomes the row base + 0x28, the set-DDRAM-address instruction of
\* that address is written, and get_cursor_row() and get_cursor_col() then
\* return (r, 40).
C28_WidthAccepted ==
    (Returned("set_cursor_pos") /\ lastOp.args[1] \in {0, 1} /\ lastOp.args[2] = 40)
        => /\ cursorLoc = 64 * lastOp.args[1] + 40
           /\ Writes(trace) = ByteFrame(128 + 64 * lastOp.args[1] + 40, 0, backlightMask)
           /\ get_cursor_row(Self) = lastOp.args[1]
           /\ get_cursor_col(Self) = 40

C28_Witness ==
    /\ Returned("set_cursor_pos")
    /\ lastOp.args = << 1, 40 >>
    /\ pre.cursorLoc = AddrOf(0, 0)
    /\ cursorLoc = 104

\* C29: bit 1 (read/write) of every byte written is 0, and the writes of a
\* method, the lone write of a backlight method apart, are triples
\* (v, v | 0x04, v) with bit 2 clear in v: the enable strobe is set in the
\* middle byte only and is clear when the method returns.
C29_StrobeFraming ==
    pc = "returned"
        => LET w == Writes(trace)
           IN  /\ \A i \in 1..Len(w) : (w[i] \div 2) % 2 = 0
               /\ lastOp.name \in BacklightOps
                    => (Len(w) = 1 /\ (w[1] \div 4) % 2 = 0)
               /\ lastOp.name \notin BacklightOps
                    => /\ Len(w) % 3 = 0
                       /\ \A k \in 1..(Len(w) \div 3) :
                              /\ (w[3 * k - 2] \div 4) % 2 = 0
                              /\ w[3 * k - 1] = w[3 * k - 2] + 4
                              /\ w[3 * k] = w[3 * k - 2]

C29_Witness ==
    /\ Returned("create_custom_char")
    /\ backlightMask = 8
    /\ Len(Writes(trace)) = 60
    /\ Writes(trace)[59] = Writes(trace)[58] + 4

\* C30: move_cursor_left() writes exactly one instruction byte, 0x10, and
\* takes one decrement step; move_cursor_right() writes exactly one
\* instruction byte, 0x14, and takes one increment step; neither writes a
\* set-address instruction, also when the step wraps to the other row.
C30_MoveCursor ==
    LET n == CellIndex(pre.cursorLoc)
    IN  /\ Returned("move_cursor_left")
            => /\ Transfers(trace) = << << 0, 16 >> >>
               /\ Len(Writes(trace)) = 6
               /\ cursorLoc = dec_cursor_loc(pre).cursorLoc
               /\ InRange(pre.cursorLoc) => cursorLoc = CellAddr((n + 79) % 80)
        /\ Returned("move_cursor_right")
            => /\ Transfers(trace) = << << 0, 20 >> >>
               /\ Len(Writes(trace)) = 6
               /\ cursorLoc = inc_cursor_loc(pre).cursorLoc
               /\ InRange(pre.cursorLoc) => cursorLoc = CellAddr((n + 1) % 80)

C30_Witness ==
    /\ Returned("move_cursor_left")
    /\ pre.cursorLoc = AddrOf(1, 0)
    /\ cursorLoc = AddrOf(0, 39)
    /\ Transfers(trace) = << << 0, 16 >> >>


\* the methods that set, clear or flip a bit of the display-control mask,
\* with the bit: 4 display, 2 underline cursor, 1 blink
EnableOps == [enable_display |-> 4, enable_cursor_display |-> 2, enable_blinking_cursor |-> 1]
DisableOps ==
    [disable_display |-> 4, disable_cursor_display |-> 2, disable_blinking_cursor |-> 1]
ToggleOps == [toggle_display |-> 4, toggle_cursor_display |-> 2, toggle_blinking_cursor |-> 1]

\* bit b (1, 2 or 4) of the mask m, and the mask without it
BitOf(m, b) == (m \div b) % 2
Others(m, b) == m - b * BitOf(m, b)

\* C31: each enable/disable/toggle method changes its own bit of the
\* display-control mask only; toggling the same bit twice restores the mask;
\* enabling a bit that is set, or disabling one that is clear, leaves the
\* mask as it was and still sends one control instruction.
C31_BitsIndependent ==
    /\ (pc = "returned" /\ lastOp.name \in DOMAIN EnableOps)
        => LET b == EnableOps[lastOp.name]
           IN  /\ BitOf(displayState, b) = 1
               /\ Others(displayState, b) = Others(pre.displayState, b)
               /\ Transfers(trace) = << << 0, 8 + displayState >> >>
    /\ (pc = "returned" /\ lastOp.name \in DOMAIN DisableOps)
        => LET b == DisableOps[lastOp.name]
           IN  /\ BitOf(displayState, b) = 0
               /\ Others(displayState, b) = Others(pre.displayState, b)
               /\ Transfers(trace) = << << 0, 8 + displayState >> >>
    /\ (pc = "returned" /\ lastOp.name \in DOMAIN ToggleOps)
        => LET b == ToggleOps[lastOp.name]
           IN  /\ BitOf(displayState, b) = 1 - BitOf(pre.displayState, b)
               /\ Others(displayState, b) = Others(pre.displayState, b)
               /\ Transfers(trace) = << << 0, 8 + displayState >> >>
    /\ Returned("toggle_display")
        => toggle_display(Self).displayState = pre.displayState
    /\ Returned("toggle_cursor_display")
        => toggle_cursor_display(Self).displayState = pre.displayState
    /\ Returned("toggle_blinking_cursor")
        => toggle_blinking_cursor(Self).displayState = pre.displayState

C31_Witness ==
    /\ Returned("disable_cursor_display")
    /\ pre.displayState = 5
    /\ displayState = 5
    /\ Transfers(trace) = << << 0, 13 >> >>

\* C32: an interrupt handler that calls get_cursor_row() and
\* get_cursor_col() during send_data, move_cursor_left, move_cursor_right or
\* set_cursor_pos sees the position before the call or the position after
\* it, never an address in the gap or one past the end of a row.
C32_IsrSeesPreOrPost ==
    (pc = "returned" /\ isr # << >>)
        => /\ \/ isr = << get_cursor_row(pre), get_cursor_col(pre) >>
              \/ isr = << get_cursor_row(Self), get_cursor_col(Self) >>
           /\ isr[2] < 40

\* C33: whenever initialize() returns, called directly or through
\* get_stream(), the tracked address is 0x00, the address of the cursor-home
\* instruction that initialize() has sent.
C33_InitHomesCursor ==
    (pc = "returned" /\ lastOp.name \in {"initialize", "get_stream"})
        => cursorLoc = 0

\* the names of the four entry modes, by the value of the entry-mode mask
EntryModeOf ==
    [m \in 0..3 |-> << "CURSOR_DEC", "DISPLAY_INC", "CURSOR_INC", "DISPLAY_DEC" >>[m + 1]]

\* C34: in every reachable state, before initialize() too, the entry-mode
\* mask is one of the four combinations of the move-target bit (0x01) and
\* the direction bit (0x02), so get_entry_mode() does not take its default
\* branch and returns CURSOR_INC, CURSOR_DEC, DISPLAY_INC or DISPLAY_DEC.
C34_EntryMaskValid ==
    /\ cursorMovement \in 0..3
    /\ get_entry_mode(Self) = EntryModeOf[cursorMovement]
    /\ Returned("get_entry_mode") => ret = << EntryModeOf[cursorMovement] >>

C34_Witness ==
    /\ Returned("get_entry_mode")
    /\ cursorMovement = 0
    /\ ret = << "CURSOR_DEC" >>
    /\ displayState = 0

\* the methods whose last transfer is that of update_display_cursor_pos,
\* when they write at all
SetAddressOps == {"set_cursor_pos", "create_custom_char"}

\* C35: in every reachable state the tracked address is at most 0x68, so
\* every set-DDRAM-address byte sent by update_display_cursor_pos is 0x80 +
\* the tracked address: bit 7 set, the low 7 bits the tracked address.
C35_SetAddressByte ==
    /\ cursorLoc <= 104
    /\ (/\ pc = "returned"
        /\ \/ lastOp.name \in SetAddressOps
           \/ lastOp.name = "_putc" /\ lastOp.args[1] \in {10, 13}
        /\ trace # << >>)
        => LET x == Transfers(trace)
               b == x[Len(x)][2]
           IN  /\ x[Len(x)][1] = 0
               /\ b = 128 + cursorLoc
               /\ b \div 128 = 1
               /\ b % 128 = cursorLoc

C35_Witness ==
    /\ Returned("set_cursor_pos")
    /\ cursorLoc = 104
    /\ Transfers(trace) = << << 0, 232 >> >>

=============================================================================
